---- MODULE Spec2Model ----
(***************************************************************************)
(* Road-capacity booking: the regional segment ledger (SegmentService of   *)
(* regional_manager/ireland) under concurrent database sessions, and the   *)
(* central coordinator (central_manager/app.py) that drives it.            *)
(***************************************************************************)
EXTENDS Integers, Sequences, FiniteSets, Bags, TLC

\* ------------------------------------------------------------------ bounds
MaxCap == 2            \* capacity of the largest seeded segment
MaxBatch == 2          \* longest segment_ids list a call names
MaxRows == 2           \* most rows the booking_segments table of a region holds
MaxQueue == 2          \* most requests waiting at the gate of a region
MaxSleeping == 1       \* most requests of a region asleep between two attempts

\* ------------------------------------------------------------- vocabulary
REGIONAL_ENDPOINTS == {"ireland", "london"}
Home == "ireland"      \* the region whose service the regional specifications exercise
Bookings == {"b1", "b2"}
Segs == {"s1", "s2"}   \* segment_id of the rows of road_segments
SegIds == Segs \cup {"sx"}   \* "sx" names no row of road_segments
Sessions == {1, 2}     \* concurrent request handlers, one database session each
Statuses == {"waiting", "success", "failed", "cancelled"}

Batches == UNION {[1..n -> SegIds] : n \in 0..MaxBatch}

VARIABLES
    capacity,          \* [region][segment] road_segments.capacity
    current_load,      \* [region][segment] road_segments.current_load
    booking_segments,  \* [region] bag of rows of the booking_segments table
    txn,               \* [session] the service call in flight in that session
    ret,               \* the response of the call that returned in the last step
    hist,              \* history: the run of calls last made on one booking
    outcome,           \* history: [booking] how far the booking of a race has come
    req,               \* [booking] the coordinator's send_request task for it
    call,              \* [booking][region] the make_regional_request in flight
    regional_semaphores,  \* [region] the asyncio.Semaphore that gates its requests
    tasks              \* [region] the requests inside the gate, and one observed request

\* the admission gate of make_regional_request
gate == <<regional_semaphores, tasks>>

vars == <<capacity, current_load, booking_segments, txn, ret, hist, outcome, req, call,
          regional_semaphores, tasks>>

\* --------------------------------------------------------------- the rows
\* segment_order is left out of the row: it is written once (the index of the id in
\* the batch) and read only by the ORDER BY of get_segments
BookingSegment(b, s, st) ==
    [booking_id |-> b, segment_id |-> s, status |-> st]

RowsOf(tbl, b) == {r \in BagToSet(tbl) : r.booking_id = b}

RECURSIVE BagSum(_, _)
BagSum(tbl, rows) ==
    IF rows = {} THEN 0
    ELSE LET r == CHOOSE x \in rows : TRUE
         IN CopiesIn(r, tbl) + BagSum(tbl, rows \ {r})

\* number of rows of the table that satisfy a filter given as a set of rows
Count(tbl, rows) == BagSum(tbl, rows \cap BagToSet(tbl))

\* the rows bulk_save_objects inserts for a batch: one per entry of segment_ids
RECURSIVE NewRows(_, _, _)
NewRows(b, ids, st) ==
    IF ids = <<>> THEN EmptyBag
    ELSE SetToBag({BookingSegment(b, Head(ids), st)}) (+) NewRows(b, Tail(ids), st)

\* UPDATE booking_segments SET status = st WHERE booking_id = b
SetStatus(tbl, b, st) ==
    LET mine == RowsOf(tbl, b)
        kept == BagToSet(tbl) \ mine
        moved == {[r EXCEPT !.status = st] : r \in mine}
    IN [x \in moved \cup kept |->
           IF x \in moved
           THEN BagSum(tbl, {r \in mine : [r EXCEPT !.status = st] = x})
           ELSE tbl[x]]

Live(tbl, b) == {r \in RowsOf(tbl, b) : r.status \in {"waiting", "success"}}

Range(f) == {f[i] : i \in DOMAIN f}

\* ------------------------------------------------------ sessions and locks
Idle == [pc |-> "idle", op |-> "none", booking_id |-> "none", segment_ids |-> <<>>,
         need |-> {}, held |-> {}, stale |-> FALSE, loaded |-> <<>>,
         segments_cancelled |-> 0, segments_freed |-> 0]

NoReturn == [op |-> "none", booking_id |-> "none", status |-> "none",
             segments_cancelled |-> 0, segments_freed |-> 0, rowcount |-> 0]

Return(op, b, st, c, f) ==
    [op |-> op, booking_id |-> b, status |-> st,
     segments_cancelled |-> c, segments_freed |-> f, rowcount |-> 0]

\* the rows of road_segments a "WHERE segment_id IN :segment_ids FOR UPDATE" locks
LockSet(ids) == Range(ids) \cap Segs

\* (variant: the FOR UPDATE clause left out, so that no session waits)
LockFree_NoLock(p, s) == TRUE

\* a row lock is free for session p when no other session's open transaction holds it
LockFree(p, s) == \A q \in Sessions \ {p} : s \notin txn[q].held

\* A commit that writes the road_segments rows in roads and the rows of booking b
\* (b = "none": no row of booking_segments) ends the transaction of session p.
\* It also writes rows that another open transaction has yet to lock or update,
\* which that transaction's first statement saw as they were before: the other
\* transaction is marked stale.
Conflicts(q, roads, b) ==
    /\ txn[q].pc \in {"reserve_lock", "cancel_lock"}
    /\ \/ txn[q].need \cap roads # {}
       \/ txn[q].op = "cancel_booking" /\ txn[q].booking_id = b

Commit(p, roads, b) ==
    [q \in Sessions |-> IF q = p THEN Idle
                        ELSE IF Conflicts(q, roads, b) THEN [txn[q] EXCEPT !.stale = TRUE]
                        ELSE txn[q]]

\* the table of the model holds MaxRows rows: an insert waits for room
Room(n) == BagCardinality(booking_segments[Home]) + n <= MaxRows

\* --------------------------------------------------------- reserve_segments
\* (variant: the comparison off by one)
AtCapacity_OffByOne(load, cap) == load > cap

\* "if segment.current_load >= segment.capacity"
AtCapacity(load, cap) == load >= cap

\* the loop "for segment_id in segment_ids" over the loaded RoadSegment objects:
\* it raises at the first id that is missing or at capacity, and has by then
\* incremented the objects of the ids before it
RECURSIVE ReserveLoop(_, _, _)
ReserveLoop(cap, loaded, ids) ==
    IF ids = <<>> THEN [ok |-> TRUE, load |-> loaded]
    ELSE LET s == Head(ids)
         IN IF s \notin DOMAIN loaded THEN [ok |-> FALSE, load |-> loaded]
            ELSE IF AtCapacity(loaded[s], cap[s]) THEN [ok |-> FALSE, load |-> loaded]
            ELSE ReserveLoop(cap, [loaded EXCEPT ![s] = @ + 1], Tail(ids))

\* db.commit(): the session's dirty objects are flushed over the rows they came from
Flush(committed, dirty) == [s \in DOMAIN committed |->
                               IF s \in DOMAIN dirty THEN dirty[s] ELSE committed[s]]

\* (variant: the except branch commits what the loop had done instead of rolling back)
Rollback_KeepsDirty(committed, dirty) == Flush(committed, dirty)

\* db.rollback(): the increments made on the session's objects are discarded
Rollback(committed, dirty) == committed

reserve_segments_begin(p, b, ids) ==
    /\ txn[p].pc = "idle"
    /\ IF ids = <<>>
       THEN /\ ret' = Return("reserve_segments", b, "reserved", 0, 0)
            /\ UNCHANGED txn
       ELSE /\ txn' = [txn EXCEPT ![p] = [Idle EXCEPT !.pc = "reserve_lock",
                                              !.op = "reserve_segments",
                                              !.booking_id = b,
                                              !.segment_ids = ids,
                                              !.need = LockSet(ids)]]
            /\ ret' = NoReturn
    /\ UNCHANGED <<capacity, current_load, booking_segments>>

\* SELECT ... FOR UPDATE takes the row locks one row at a time, in no stated order
row_lock(p, s) ==
    /\ txn[p].pc \in {"reserve_lock", "cancel_lock"}
    /\ s \in txn[p].need \ txn[p].held
    /\ LockFree(p, s)
    /\ txn' = [txn EXCEPT ![p].held = @ \cup {s}]
    /\ ret' = NoReturn
    /\ UNCHANGED <<capacity, current_load, booking_segments>>

\* the ORM query that follows the lock statement loads the committed rows
reserve_segments_query(p) ==
    /\ txn[p].pc = "reserve_lock"
    /\ txn[p].need \subseteq txn[p].held
    /\ txn' = [txn EXCEPT ![p].pc = "reserve_check",
                          ![p].loaded = [s \in txn[p].need |-> current_load[Home][s]]]
    /\ ret' = NoReturn
    /\ UNCHANGED <<capacity, current_load, booking_segments>>

\* the capacity loop, then bulk_save_objects and commit, or rollback and re-raise
reserve_segments_commit(p) ==
    /\ txn[p].pc = "reserve_check"
    /\ LET b == txn[p].booking_id
           ids == txn[p].segment_ids
           r == ReserveLoop(capacity[Home], txn[p].loaded, ids)
       IN IF r.ok
          THEN /\ Room(Len(ids))
               /\ current_load' = [current_load EXCEPT
                                     ![Home] = Flush(current_load[Home], r.load)]
               /\ booking_segments' = [booking_segments EXCEPT
                                     ![Home] = @ (+) NewRows(b, ids, "waiting")]
               /\ ret' = Return("reserve_segments", b, "reserved", 0, 0)
               /\ txn' = Commit(p, txn[p].need, "none")
          ELSE /\ current_load' = [current_load EXCEPT
                                     ![Home] = Rollback(current_load[Home], r.load)]
               /\ UNCHANGED booking_segments
               /\ ret' = Return("reserve_segments", b, "rejected", 0, 0)
               /\ txn' = [txn EXCEPT ![p] = Idle]
    /\ UNCHANGED capacity

\* lock_timeout=10000: a session that waits for a row lock another session holds
\* gets an error; the except branch rolls back, which releases what it held
lock_timeout(p) ==
    /\ txn[p].pc \in {"reserve_lock", "cancel_lock"}
    /\ \E s \in txn[p].need \ txn[p].held : ~LockFree(p, s)
    /\ ret' = Return(txn[p].op, txn[p].booking_id, "error", 0, 0)
    /\ txn' = [txn EXCEPT ![p] = Idle]
    /\ UNCHANGED <<capacity, current_load, booking_segments>>

\* set_isolation_level passes isolation_level=2 under the comment READ COMMITTED;
\* psycopg2 reads 2 as REPEATABLE READ.  Both levels are modelled: a stale
\* transaction either goes on with the rows as committed (READ COMMITTED, the
\* steps above) or fails with a serialization error, which the except branch
\* answers with a rollback (REPEATABLE READ, this step)
serialization_failure(p) ==
    /\ txn[p].pc \in {"reserve_lock", "cancel_lock"}
    /\ txn[p].stale
    /\ ret' = Return(txn[p].op, txn[p].booking_id, "error", 0, 0)
    /\ txn' = [txn EXCEPT ![p] = Idle]
    /\ UNCHANGED <<capacity, current_load, booking_segments>>

\* ----------------------------------------------------------- cancel_booking
\* (variant: the status filter left out)
Releasable_Any == Statuses

\* "if bs.status in ['waiting', 'success']"
Releasable == {"waiting", "success"}

\* UPDATE road_segments SET current_load = GREATEST(0, current_load - 1)
\*  WHERE segment_id IN :segment_ids   (each row named is updated once)
Decrement(load, ids) ==
    [s \in DOMAIN load |-> IF s \in ids
                           THEN IF load[s] - 1 > 0 THEN load[s] - 1 ELSE 0
                           ELSE load[s]]

\* the query of the booking's rows, and the early return when there is none
cancel_booking_begin(p, b) ==
    /\ txn[p].pc = "idle"
    /\ LET tbl == booking_segments[Home]
           rows == RowsOf(tbl, b)
           live == {r \in rows : r.status \in Releasable}
       IN IF rows = {}
          THEN /\ ret' = Return("cancel_booking", b, "not_found", 0, 0)
               /\ UNCHANGED txn
          ELSE /\ txn' = [txn EXCEPT ![p] =
                            [Idle EXCEPT !.pc = "cancel_lock",
                                         !.op = "cancel_booking",
                                         !.booking_id = b,
                                         !.need = {r.segment_id : r \in live} \cap Segs,
                                         !.segments_cancelled = BagSum(tbl, rows),
                                         !.segments_freed = BagSum(tbl, live)]]
               /\ ret' = NoReturn
    /\ UNCHANGED <<capacity, current_load, booking_segments>>

\* once the locks are held: the decrement, the status update and the commit
cancel_booking_commit(p) ==
    /\ txn[p].pc = "cancel_lock"
    /\ txn[p].need \subseteq txn[p].held
    /\ LET b == txn[p].booking_id
       IN /\ current_load' = [current_load EXCEPT
                                ![Home] = Decrement(@, txn[p].need)]
          /\ booking_segments' = [booking_segments EXCEPT
                                    ![Home] = SetStatus(@, b, "cancelled")]
          /\ ret' = Return("cancel_booking", b, "success",
                           txn[p].segments_cancelled, txn[p].segments_freed)
          /\ txn' = Commit(p, txn[p].need, b)
    /\ UNCHANGED capacity

\* ---------------------------------------------------------- confirm_booking
\* UPDATE booking_segments SET status = 'success' WHERE booking_id = :booking_id
confirm_booking(p, b) ==
    /\ txn[p].pc = "idle"
    /\ booking_segments' = [booking_segments EXCEPT
                              ![Home] = SetStatus(@, b, "success")]
    /\ ret' = [Return("confirm_booking", b, "success", 0, 0) EXCEPT
                  !.rowcount = BagSum(booking_segments[Home],
                                      RowsOf(booking_segments[Home], b))]
    /\ txn' = Commit(p, {}, IF RowsOf(booking_segments[Home], b) = {} THEN "none" ELSE b)
    /\ UNCHANGED <<capacity, current_load>>

\* ----------------------------------------------------------- check_capacity
\* (variant: the rows recorded as reservations in progress)
record_failed_segments_AsWaiting(tbl, b, ids) == tbl (+) NewRows(b, ids, "waiting")

\* SegmentService.record_failed_segments: one 'failed' row per entry of segment_ids
record_failed_segments(tbl, b, ids) == tbl (+) NewRows(b, ids, "failed")

\* SegmentService.check_segments_capacity: a batch query, no lock
check_segments_capacity(load, cap, ids) ==
    IF ids = <<>> THEN TRUE
    ELSE LET found == Range(ids) \cap DOMAIN load
         IN IF Cardinality(found) # Len(ids) THEN FALSE
            ELSE \A i \in DOMAIN ids : ~AtCapacity(load[ids[i]], cap[ids[i]])

\* (variant: a check that answers "ok" takes the places it found)
check_capacity_Holding(p, b, ids) ==
    /\ txn[p].pc = "idle"
    /\ IF ids # <<>> /\ check_segments_capacity(current_load[Home], capacity[Home], ids)
       THEN /\ ret' = Return("check_capacity", b, "ok", 0, 0)
            /\ current_load' = [current_load EXCEPT ![Home] =
                                  [s \in Segs |-> IF s \in Range(ids) THEN @[s] + 1
                                                  ELSE @[s]]]
       ELSE /\ ret' = Return("check_capacity", b, "error", 0, 0)
            /\ UNCHANGED current_load
    /\ UNCHANGED <<capacity, booking_segments, txn>>

\* the handler: 400 without segments, "ok", or "failed" after record_failed_segments
check_capacity(p, b, ids) ==
    /\ txn[p].pc = "idle"
    /\ IF ids = <<>>
       THEN /\ ret' = Return("check_capacity", b, "error", 0, 0)
            /\ UNCHANGED booking_segments
       ELSE IF check_segments_capacity(current_load[Home], capacity[Home], ids)
       THEN /\ ret' = Return("check_capacity", b, "ok", 0, 0)
            /\ UNCHANGED booking_segments
       ELSE /\ Room(Len(ids))
            /\ booking_segments' = [booking_segments EXCEPT
                                      ![Home] = record_failed_segments(@, b, ids)]
            /\ ret' = Return("check_capacity", b, "failed", 0, 0)
    /\ UNCHANGED <<capacity, current_load, txn>>

\* ------------------------------------------------- the regional specification
\* the seed data: segment s1 is the wide road, s2 has room for one booking
SeedCapacity == [s \in Segs |-> IF s = "s1" THEN MaxCap ELSE 1]

NoHistory == [booking_id |-> "none", phase |-> "fresh", pre |-> <<>>, n |-> 0]
NoOutcome == [b \in Bookings |-> "none"]

\* "asyncio.Semaphore(20)": the requests a region takes at a time
Permits == 20

\* a semaphore as asyncio keeps it: the counter, the waiters whose future is
\* pending and the waiters whose future is set but who have not run yet
NewSemaphore == [value |-> Permits, waiters |-> 0, woken |-> 0]

\* the observed request: where it stands at the gate of its region, and the
\* number of pending waiters ahead of it
Away == [state |-> "away", region |-> "none", ahead |-> 0, waited |-> FALSE]
NoTasks == [in_flight |-> [r \in REGIONAL_ENDPOINTS |-> 0],
            sleeping |-> [r \in REGIONAL_ENDPOINTS |-> 0], observed |-> Away]

GateInit ==
    /\ regional_semaphores = [r \in REGIONAL_ENDPOINTS |-> NewSemaphore]
    /\ tasks = NoTasks

\* a booking no send_request was made for, and a region no request is in flight to
NoRequest == [pc |-> "idle", route |-> "none", regional_segments |-> <<>>,
              confirmation |-> <<>>, status |-> "none"]
NoCall == [state |-> "none", endpoint |-> "none", attempt |-> 0, backoff |-> 0,
           success |-> FALSE, status |-> "none"]
NoRequests == [b \in Bookings |-> NoRequest]
NoCalls == [b \in Bookings |-> [r \in REGIONAL_ENDPOINTS |-> NoCall]]

LedgerInit ==
    /\ capacity = [r \in REGIONAL_ENDPOINTS |-> SeedCapacity]
    /\ current_load = [r \in REGIONAL_ENDPOINTS |-> [s \in Segs |-> 0]]
    /\ booking_segments = [r \in REGIONAL_ENDPOINTS |-> EmptyBag]
    /\ txn = [p \in Sessions |-> Idle]
    /\ ret = NoReturn

Init ==
    /\ LedgerInit
    /\ hist = NoHistory /\ outcome = NoOutcome
    /\ req = NoRequests /\ call = NoCalls
    /\ GateInit

\* the booking whose calls session p carries
BookingOf(p) == IF p = 1 THEN "b1" ELSE "b2"

\* two bookings in flight at once, each making its calls one after the other
Quiet == UNCHANGED <<hist, outcome, req, call, gate>>

Next ==
    \/ \E p \in Sessions, ids \in Batches :
          reserve_segments_begin(p, BookingOf(p), ids) /\ Quiet
    \/ \E p \in Sessions, s \in Segs : row_lock(p, s) /\ Quiet
    \/ \E p \in Sessions : reserve_segments_query(p) /\ Quiet
    \/ \E p \in Sessions : reserve_segments_commit(p) /\ Quiet
    \/ \E p \in Sessions : cancel_booking_begin(p, BookingOf(p)) /\ Quiet
    \/ \E p \in Sessions : cancel_booking_commit(p) /\ Quiet
    \/ \E p \in Sessions : confirm_booking(p, BookingOf(p)) /\ Quiet
    \/ \E p \in Sessions, ids \in Batches : check_capacity(p, BookingOf(p), ids) /\ Quiet
    \/ \E p \in Sessions : lock_timeout(p) /\ Quiet
    \/ \E p \in Sessions : serialization_failure(p) /\ Quiet

Spec == Init /\ [][Next]_vars

\* ----------------------------------------------- the sequential specification
\* History of the calls of one session.  hist names the booking the last calls
\* that changed the ledger were made on, and how far that run of calls has come:
\*   "rejected"    its reserve raised (pre: the loads before it, n: the increments
\*                 the loop had made when it raised)
\*   "reserved"    its reserve committed when the booking held nothing (pre: the
\*                 loads before it)
\*   "confirmed"   and was then confirmed
\*   "cancelled"   a cancel committed (n: its segments_freed)
\*   "recancelled" and another cancel committed right after it
\*   "fresh"       anything else
History(b, ph, pre, n) == [booking_id |-> b, phase |-> ph, pre |-> pre, n |-> n]

Effect == booking_segments' # booking_segments \/ current_load' # current_load

RECURSIVE SumOver(_, _)
SumOver(f, S) == IF S = {} THEN 0
                 ELSE LET x == CHOOSE y \in S : TRUE IN f[x] + SumOver(f, S \ {x})

Track(p) ==
    LET r == ret'
        b == r.booking_id
        same == hist.booking_id = b
        load == current_load[Home]
    IN  IF r.op = "reserve_segments" /\ r.status = "reserved" /\ Effect
        THEN IF Live(booking_segments[Home], b) = {}
             THEN History(b, "reserved", load, 0)
             ELSE History(b, "fresh", <<>>, 0)
        ELSE IF r.op = "reserve_segments" /\ r.status = "rejected"
        THEN LET dirty == ReserveLoop(capacity[Home], txn[p].loaded,
                                      txn[p].segment_ids).load
             IN History(b, "rejected", load,
                        SumOver(dirty, DOMAIN dirty) - SumOver(txn[p].loaded, DOMAIN dirty))
        ELSE IF r.op = "confirm_booking"
        THEN IF same /\ hist.phase \in {"reserved", "confirmed"}
             THEN [hist EXCEPT !.phase = "confirmed"]
             ELSE IF Effect THEN History(b, "fresh", <<>>, 0) ELSE hist
        ELSE IF r.op = "cancel_booking" /\ r.status = "success"
        THEN IF same /\ hist.phase \in {"cancelled", "recancelled"}
             THEN History(b, "recancelled", <<>>, hist.n)
             ELSE History(b, "cancelled", <<>>, r.segments_freed)
        ELSE IF r.op = "check_capacity" /\ r.status = "failed"
        THEN History(b, "fresh", <<>>, 0)
        ELSE hist

\* one session: the calls, on any booking, run one after the other
Tracked == hist' = Track(1) /\ UNCHANGED <<outcome, req, call, gate>>

NextSeq ==
    \/ \E b \in Bookings, ids \in Batches : reserve_segments_begin(1, b, ids) /\ Tracked
    \/ \E s \in Segs : row_lock(1, s) /\ Tracked
    \/ reserve_segments_query(1) /\ Tracked
    \/ reserve_segments_commit(1) /\ Tracked
    \/ \E b \in Bookings : cancel_booking_begin(1, b) /\ Tracked
    \/ cancel_booking_commit(1) /\ Tracked
    \/ \E b \in Bookings : confirm_booking(1, b) /\ Tracked
    \/ \E b \in Bookings, ids \in Batches : check_capacity(1, b, ids) /\ Tracked

SpecSeq == Init /\ [][NextSeq]_vars

\* ------------------------------------------------------ the race for a segment
\* Two bookings call reserve_segments for the one free place on a segment at the
\* same time, and once both calls have returned each booking settles: the one
\* that holds the place confirms or cancels, the other may cancel.  outcome[b]
\* follows booking b:
\*   "none", "calling" (inside reserve_segments), "reserved", "rejected" (its
\*   reserve raised), "confirmed", "cancelled"
\* the seed of a race: any capacities, and a race is run for a segment of capacity 1
InitRace ==
    /\ capacity \in {c \in [REGIONAL_ENDPOINTS -> [Segs -> 1..MaxCap]] :
                        \A r \in REGIONAL_ENDPOINTS \ {Home} : c[r] = SeedCapacity}
    /\ current_load = [r \in REGIONAL_ENDPOINTS |-> [s \in Segs |-> 0]]
    /\ booking_segments = [r \in REGIONAL_ENDPOINTS |-> EmptyBag]
    /\ txn = [p \in Sessions |-> Idle]
    /\ ret = NoReturn
    /\ hist = NoHistory
    /\ outcome = NoOutcome
    /\ req = NoRequests /\ call = NoCalls
    /\ GateInit

\* the segments the two bookings can race for: the other booking, if it is
\* already inside its call, has named the segment
RaceSegs(p) ==
    {s \in Segs : /\ capacity[Home][s] = 1
                  /\ \A q \in Sessions \ {p} :
                        txn[q].pc # "idle" => txn[q].segment_ids = <<s>>}

BothReturned == \A b \in Bookings : outcome[b] \notin {"none", "calling"}

Racing(p) ==
    LET b == BookingOf(p)
    IN \/ /\ outcome[b] = "none"
          /\ \A x \in Bookings \ {b} : outcome[x] \in {"none", "calling"}
          /\ \E s \in RaceSegs(p) : reserve_segments_begin(p, b, <<s>>)
          /\ UNCHANGED <<hist, req, call, gate>>
          /\ outcome' = [outcome EXCEPT ![b] = "calling"]
       \/ /\ \E s \in Segs : row_lock(p, s)
          /\ UNCHANGED <<outcome, hist, req, call, gate>>
       \/ /\ reserve_segments_query(p)
          /\ UNCHANGED <<outcome, hist, req, call, gate>>
       \/ /\ reserve_segments_commit(p)
          /\ UNCHANGED <<hist, req, call, gate>>
          /\ outcome' = [outcome EXCEPT ![b] =
                            IF ret'.status = "reserved" THEN "reserved" ELSE "rejected"]
       \/ /\ lock_timeout(p)
          /\ UNCHANGED <<hist, req, call, gate>>
          /\ outcome' = [outcome EXCEPT ![b] =
                            IF txn[p].op = "reserve_segments" THEN "rejected" ELSE @]
       \/ /\ serialization_failure(p)
          /\ UNCHANGED <<hist, req, call, gate>>
          /\ outcome' = [outcome EXCEPT ![b] =
                            IF txn[p].op = "reserve_segments" THEN "rejected" ELSE @]
       \/ /\ BothReturned /\ outcome[b] = "reserved"
          /\ confirm_booking(p, b)
          /\ UNCHANGED <<hist, req, call, gate>>
          /\ outcome' = [outcome EXCEPT ![b] = "confirmed"]
       \/ /\ BothReturned /\ outcome[b] \in {"reserved", "confirmed", "rejected"}
          /\ cancel_booking_begin(p, b)
          /\ UNCHANGED <<outcome, hist, req, call, gate>>
       \/ /\ cancel_booking_commit(p)
          /\ UNCHANGED <<hist, req, call, gate>>
          /\ outcome' = [outcome EXCEPT ![b] = "cancelled"]

NextRace == \E p \in Sessions : Racing(p)

SpecRace == InitRace /\ [][NextRace]_vars

\* ------------------------------------------------------------ the coordinator
\* central_manager/app.py: send_request drives every region through four phases
\* (process_segment, check_capacity, then confirm_booking or cancel_booking), each
\* phase an asyncio.gather of one make_regional_request per region.  A region
\* handles a request in one step; every region runs the handlers of
\* regional_manager/ireland/app.py, each with the database session that get_db
\* yields.  The coordinator is taken with app.state.http_client set, as lifespan
\* sets it, although "app = FastAPI(title=...)" is not given that lifespan.
max_retries == 3

\* the routes a request can name; "malformed" stands for coordinates that
\* parse_coordinates cannot read
Routes == {"north", "south", "local", "malformed"}

\* the segment ids the spatial query of a region matches for a route, over the
\* seeded geometry: "north" runs along s1 in both regions, "south" along s2 in
\* Ireland and s1 in London, "local" along s1 in Ireland and matches nothing in London
convert_route_to_segments(r, route) ==
    CASE route = "north" -> <<"s1">>
      [] route = "south" -> IF r = Home THEN <<"s2">> ELSE <<"s1">>
      [] route = "local" -> IF r = Home THEN <<"s1">> ELSE <<>>
      [] OTHER -> <<>>

\* the seed of the coordinator's runs: s1 has one place left, s2 is full
SeedLoad == [s \in Segs |-> IF s = "s1" THEN MaxCap - 1 ELSE 1]

\* the tasks "for region in ...: tasks.append(make_regional_request(...))"
Launch(regions, endpoint) ==
    [r \in REGIONAL_ENDPOINTS |->
        IF r \in regions THEN [NoCall EXCEPT !.state = "in_flight", !.endpoint = endpoint]
        ELSE NoCall]

AllReturned_Any(b) ==
    \E r \in REGIONAL_ENDPOINTS : call[b][r].state # "in_flight"

\* asyncio.gather has returned: every task of the phase has
AllReturned(b) ==
    \A r \in REGIONAL_ENDPOINTS : call[b][r].state # "in_flight"

\* the segments the booking sends a region with check_capacity
SegmentsSent(b, r) ==
    IF r \in DOMAIN req[b].regional_segments THEN req[b].regional_segments[r] ELSE <<>>

\* what a region's handler answers to a request and what it leaves in its tables
Response(code, status, tbl, load) ==
    [code |-> code, status |-> status, tbl |-> tbl, load |-> load]

Handler(r, b, endpoint) ==
    LET tbl == booking_segments[r]
        load == current_load[r]
        ids == SegmentsSent(b, r)
        rows == RowsOf(tbl, b)
        live == {x \in rows : x.status \in Releasable}
    IN CASE endpoint = "process_segment" -> Response(200, "segments", tbl, load)
         [] endpoint = "check_capacity" ->
              IF ids = <<>> THEN Response(400, "error", tbl, load)
              ELSE IF check_segments_capacity(load, capacity[r], ids)
              THEN Response(200, "ok", tbl, load)
              ELSE Response(200, "failed", record_failed_segments(tbl, b, ids), load)
         [] endpoint = "confirm_booking" ->
              Response(200, "success", SetStatus(tbl, b, "success"), load)
         [] endpoint = "cancel_booking" ->
              IF rows = {} THEN Response(200, "not_found", tbl, load)
              ELSE Response(200, "success", SetStatus(tbl, b, "cancelled"),
                            Decrement(load, {x.segment_id : x \in live}))

\* the variables no step of the coordinator touches
sessions == <<txn, ret, hist, outcome, gate>>

\* send_request up to the first gather: a route that does not parse raises into
\* the except branch, which asks every region to cancel
send_request(b, route) ==
    /\ req[b].pc = "idle"
    /\ IF route = "malformed"
       THEN /\ req' = [req EXCEPT ![b].pc = "cancel_on_error", ![b].route = route]
            /\ call' = [call EXCEPT ![b] = Launch(REGIONAL_ENDPOINTS, "cancel_booking")]
       ELSE /\ req' = [req EXCEPT ![b].pc = "process_segment", ![b].route = route]
            /\ call' = [call EXCEPT ![b] = Launch(REGIONAL_ENDPOINTS, "process_segment")]
    /\ UNCHANGED <<capacity, current_load, booking_segments, sessions>>

\* "await asyncio.sleep(retry_delay * (2 ** attempt))", in units of retry_delay
Backoff(attempt) == 2 ^ attempt

\* the end of one pass of "for attempt in range(max_retries)" that got no answer:
\* the sleep and the next attempt, or (False, error) after the last
Retry_OneMore(c) ==
    IF c.attempt + 1 <= max_retries
    THEN [c EXCEPT !.attempt = @ + 1, !.backoff = Backoff(c.attempt)]
    ELSE [c EXCEPT !.attempt = @ + 1, !.state = "returned",
                   !.success = FALSE, !.status = "error"]

Retry(c) ==
    IF c.attempt + 1 < max_retries
    THEN [c EXCEPT !.attempt = @ + 1, !.backoff = Backoff(c.attempt)]
    ELSE [c EXCEPT !.attempt = @ + 1, !.state = "returned",
                   !.success = FALSE, !.status = "error"]

\* "if response.status_code == 200: return True, response.json()" and
\* "if response.status_code < 500: return False, ..."
Answered(c, h) ==
    IF h.code = 200
    THEN [c EXCEPT !.state = "returned", !.success = TRUE, !.status = h.status]
    ELSE IF h.code < 500
    THEN [c EXCEPT !.state = "returned", !.success = FALSE, !.status = "error"]
    ELSE Retry(c)

\* an attempt that changes nothing in the region: httpx.RequestError before the
\* region handled the request, or a 5xx answer after the handler rolled back
request_error(b, r) ==
    /\ call[b][r].state = "in_flight"
    /\ call' = [call EXCEPT ![b][r] = Retry(@)]
    /\ UNCHANGED <<capacity, current_load, booking_segments, req, sessions>>

\* the room the handler's inserts need in the table of the model
RoomFor(tbl) == BagCardinality(tbl) <= MaxRows

\* an attempt the region handles and answers
regional_response(b, r) ==
    /\ call[b][r].state = "in_flight"
    /\ LET h == Handler(r, b, call[b][r].endpoint)
       IN /\ RoomFor(h.tbl)
          /\ booking_segments' = [booking_segments EXCEPT ![r] = h.tbl]
          /\ current_load' = [current_load EXCEPT ![r] = h.load]
          /\ call' = [call EXCEPT ![b][r] = Answered(@, h)]
    /\ UNCHANGED <<capacity, req, sessions>>

\* an attempt the region handles, whose answer does not arrive within timeout=10.0
response_lost(b, r) ==
    /\ call[b][r].state = "in_flight"
    /\ LET h == Handler(r, b, call[b][r].endpoint)
       IN /\ RoomFor(h.tbl)
          /\ booking_segments' = [booking_segments EXCEPT ![r] = h.tbl]
          /\ current_load' = [current_load EXCEPT ![r] = h.load]
    /\ call' = [call EXCEPT ![b][r] = Retry(@)]
    /\ UNCHANGED <<capacity, req, sessions>>

\* "Process segment results and prepare for capacity check"
segments_gathered(b) ==
    /\ req[b].pc = "process_segment"
    /\ AllReturned(b)
    /\ IF \A r \in REGIONAL_ENDPOINTS : call[b][r].success
       THEN /\ req' = [req EXCEPT
                         ![b].pc = "check_capacity",
                         ![b].regional_segments =
                             [r \in REGIONAL_ENDPOINTS |->
                                 convert_route_to_segments(r, req[b].route)]]
            /\ call' = [call EXCEPT ![b] = Launch(REGIONAL_ENDPOINTS, "check_capacity")]
       ELSE /\ req' = [req EXCEPT ![b].pc = "done", ![b].status = "failed"]
            /\ UNCHANGED call
    /\ UNCHANGED <<capacity, current_load, booking_segments, sessions>>

\* "Process capacity results", then "confirm bookings, otherwise cancel"
capacity_gathered(b) ==
    /\ req[b].pc = "check_capacity"
    /\ AllReturned(b)
    /\ LET regions == DOMAIN req[b].regional_segments
           all_capacity_ok == \A r \in regions :
                                 call[b][r].success /\ call[b][r].status = "ok"
       IN IF all_capacity_ok
          THEN /\ req' = [req EXCEPT ![b].pc = "confirm_booking"]
               /\ call' = [call EXCEPT ![b] = Launch(regions, "confirm_booking")]
          ELSE /\ req' = [req EXCEPT ![b].pc = "cancel_booking"]
               /\ call' = [call EXCEPT ![b] = Launch(regions, "cancel_booking")]
    /\ UNCHANGED <<capacity, current_load, booking_segments, sessions>>

\* the confirm results are stored in the response, and status = "success"
confirm_gathered(b) ==
    /\ req[b].pc = "confirm_booking"
    /\ AllReturned(b)
    /\ req' = [req EXCEPT
                 ![b].pc = "done",
                 ![b].status = "success",
                 ![b].confirmation = [r \in DOMAIN req[b].regional_segments |->
                                         call[b][r].status]]
    /\ UNCHANGED <<capacity, current_load, booking_segments, call, sessions>>

cancel_gathered_UntilAcknowledged(b) ==
    /\ req[b].pc \in {"cancel_booking", "cancel_on_error"}
    /\ AllReturned(b)
    /\ IF \A r \in REGIONAL_ENDPOINTS :
             call[b][r].endpoint = "cancel_booking" => call[b][r].success
       THEN /\ req' = [req EXCEPT
                         ![b].pc = "done",
                         ![b].status = IF req[b].pc = "cancel_booking"
                                       THEN "failed" ELSE "error"]
            /\ UNCHANGED call
       ELSE /\ call' = [call EXCEPT ![b] = Launch(REGIONAL_ENDPOINTS, "cancel_booking")]
            /\ UNCHANGED req
    /\ UNCHANGED <<capacity, current_load, booking_segments, sessions>>

\* the cancel results are dropped: status = "failed", or "error" in the except branch
cancel_gathered(b) ==
    /\ req[b].pc \in {"cancel_booking", "cancel_on_error"}
    /\ AllReturned(b)
    /\ req' = [req EXCEPT
                 ![b].pc = "done",
                 ![b].status = IF req[b].pc = "cancel_booking" THEN "failed" ELSE "error"]
    /\ UNCHANGED <<capacity, current_load, booking_segments, call, sessions>>

InitCoord ==
    /\ capacity = [r \in REGIONAL_ENDPOINTS |-> SeedCapacity]
    /\ current_load = [r \in REGIONAL_ENDPOINTS |-> SeedLoad]
    /\ booking_segments = [r \in REGIONAL_ENDPOINTS |-> EmptyBag]
    /\ txn = [p \in Sessions |-> Idle]
    /\ ret = NoReturn
    /\ hist = NoHistory /\ outcome = NoOutcome
    /\ req = NoRequests /\ call = NoCalls
    /\ GateInit

\* two booking requests orchestrated at the same time
NextCoord ==
    \/ \E b \in Bookings, route \in Routes : send_request(b, route)
    \/ \E b \in Bookings, r \in REGIONAL_ENDPOINTS : request_error(b, r)
    \/ \E b \in Bookings, r \in REGIONAL_ENDPOINTS : regional_response(b, r)
    \/ \E b \in Bookings, r \in REGIONAL_ENDPOINTS : response_lost(b, r)
    \/ \E b \in Bookings : segments_gathered(b)
    \/ \E b \in Bookings : capacity_gathered(b)
    \/ \E b \in Bookings : confirm_gathered(b)
    \/ \E b \in Bookings : cancel_gathered(b)

SpecCoord == InitCoord /\ [][NextCoord]_vars

\* a pair of points that no road joins; calculate_route returns
\* [start, destination] for it as for every pair, and no region matches a segment
Unroutable == "nowhere"

\* one booking request on its own, over every route and the pair no road joins
Solo == {"b1"}

NextSolo ==
    \/ \E b \in Solo, route \in Routes \cup {Unroutable} : send_request(b, route)
    \/ \E b \in Solo, r \in REGIONAL_ENDPOINTS : request_error(b, r)
    \/ \E b \in Solo, r \in REGIONAL_ENDPOINTS : regional_response(b, r)
    \/ \E b \in Solo, r \in REGIONAL_ENDPOINTS : response_lost(b, r)
    \/ \E b \in Solo : segments_gathered(b)
    \/ \E b \in Solo : capacity_gathered(b)
    \/ \E b \in Solo : confirm_gathered(b)
    \/ \E b \in Solo : cancel_gathered(b)

SpecSolo == InitCoord /\ [][NextSolo]_vars

\* "/cancel_booking/{booking_id}": the coordinator asks every region to cancel
cancel_booking_endpoint(b) ==
    /\ req[b].pc = "idle"
    /\ req' = [req EXCEPT ![b].pc = "cancel_endpoint"]
    /\ call' = [call EXCEPT ![b] = Launch(REGIONAL_ENDPOINTS, "cancel_booking")]
    /\ UNCHANGED <<capacity, current_load, booking_segments, sessions>>

\* its gather has returned: whatever the results, the answer is "cancelled"
cancel_reported(b) ==
    /\ req[b].pc = "cancel_endpoint"
    /\ AllReturned(b)
    /\ req' = [req EXCEPT ![b].pc = "done", ![b].status = "cancelled"]
    /\ UNCHANGED <<capacity, current_load, booking_segments, call, sessions>>

\* a booking whose segments were reserved in Ireland by reserve_segments is then
\* cancelled through the coordinator
NextUserCancel ==
    \/ /\ \E b \in Solo, ids \in Batches : req[b].pc = "idle" /\ reserve_segments_begin(1, b, ids)
       /\ Quiet
    \/ (\E s \in Segs : row_lock(1, s)) /\ Quiet
    \/ reserve_segments_query(1) /\ Quiet
    \/ reserve_segments_commit(1) /\ Quiet
    \/ \E b \in Solo : txn[1].pc = "idle" /\ cancel_booking_endpoint(b)
    \/ \E b \in Solo, r \in REGIONAL_ENDPOINTS : request_error(b, r)
    \/ \E b \in Solo, r \in REGIONAL_ENDPOINTS : regional_response(b, r)
    \/ \E b \in Solo, r \in REGIONAL_ENDPOINTS : response_lost(b, r)
    \/ \E b \in Solo : cancel_reported(b)

SpecUserCancel == InitCoord /\ [][NextUserCancel]_vars

\* every attempt of a regional call ends, answered, refused or cut off by
\* "timeout=10.0", and the event loop resumes a send_request whose gather is done
CoordFairness ==
    /\ \A r \in REGIONAL_ENDPOINTS :
          WF_vars(\E b \in Solo : \/ request_error(b, r)
                                  \/ regional_response(b, r)
                                  \/ response_lost(b, r))
    /\ WF_vars(\E b \in Solo : \/ segments_gathered(b) \/ capacity_gathered(b)
                               \/ confirm_gathered(b) \/ cancel_gathered(b))

SpecSoloFair == InitCoord /\ [][NextSolo]_vars /\ CoordFairness

\* ------------------------------------------------------------ the admission gate
\* central_manager/app.py: make_regional_request runs its attempts inside
\* "async with regional_semaphores[region]".  The requests of a region are
\* counted, not named, except for one observed request; the semaphore is the
\* asyncio.Semaphore of CPython 3.11 and later, which serves its waiters in order
\* of arrival.  Two bookings never fill a gate, so the coordinator's runs above
\* leave the gate alone and the gate is run here with more requests than units.

\* Semaphore.locked()
locked(sem) == sem.value = 0 \/ sem.waiters + sem.woken > 0

\* Semaphore._wake_up_next(): the first pending waiter takes the unit
wake_up_next(sem) ==
    IF sem.waiters > 0
    THEN [sem EXCEPT !.value = @ - 1, !.waiters = @ - 1, !.woken = @ + 1]
    ELSE sem

acquire_NoWait(sem) ==
    [sem |-> [sem EXCEPT !.value = @ - 1], admitted |-> TRUE]

\* Semaphore.acquire() up to its await: the unit at once, or a place in the queue
acquire(sem) ==
    IF ~locked(sem)
    THEN [sem |-> [sem EXCEPT !.value = @ - 1], admitted |-> TRUE]
    ELSE [sem |-> [sem EXCEPT !.waiters = @ + 1], admitted |-> FALSE]

\* Semaphore.release()
release(sem) == wake_up_next([sem EXCEPT !.value = @ + 1])

\* "while self._value > 0: if not self._wake_up_next(): break"
RECURSIVE wake_while_free(_)
wake_while_free(sem) ==
    IF sem.value > 0 /\ sem.waiters > 0 THEN wake_while_free(wake_up_next(sem)) ELSE sem

\* Semaphore.acquire() from its await on, in the waiter that was woken
resumed(sem) == wake_while_free([sem EXCEPT !.woken = @ - 1])

\* the ways out of the block: return (True, ...), return (False, ...) on an answer
\* below 500, return (False, ...) after the last attempt, and an exception
Exits == {"success", "client_error", "exhausted", "exception"}

aexit_LeakOnException(sem, how) ==
    IF how = "exception" THEN sem ELSE release(sem)

\* the end of "async with regional_semaphores[region]", on every way out
aexit(sem, how) == release(sem)

\* the requests waiting at the gate of region r, woken or not
Queue(r) == regional_semaphores[r].waiters + regional_semaphores[r].woken

\* the observed request after the semaphore of region r went from sem to next:
\* every waiter woken in between was ahead of it, or was the observed request
Notify(obs, r, sem, next) ==
    LET w == sem.waiters - next.waiters
    IN IF obs.state = "waiting" /\ obs.region = r /\ w > 0
       THEN IF obs.ahead < w
            THEN [obs EXCEPT !.state = "woken", !.ahead = 0]
            ELSE [obs EXCEPT !.ahead = @ - w]
       ELSE obs

\* the observed request of region r being in the given state counts as one
Observed(r, state) ==
    IF tasks.observed.state = state /\ tasks.observed.region = r THEN 1 ELSE 0

\* the variables the gate does not touch
beyond_gate == <<capacity, current_load, booking_segments, txn, ret, hist, outcome,
                 req, call>>

\* a request reaches "async with regional_semaphores[region]"
enter(r) ==
    /\ Queue(r) < MaxQueue
    /\ LET a == acquire(regional_semaphores[r])
       IN /\ regional_semaphores' = [regional_semaphores EXCEPT ![r] = a.sem]
          /\ tasks' = [tasks EXCEPT
                         !.in_flight[r] = IF a.admitted THEN @ + 1 ELSE @]
    /\ UNCHANGED beyond_gate

\* the observed request reaches it
enter_observed(r) ==
    /\ tasks.observed.state = "away"
    /\ Queue(r) < MaxQueue
    /\ LET sem == regional_semaphores[r]
           a == acquire(sem)
       IN /\ regional_semaphores' = [regional_semaphores EXCEPT ![r] = a.sem]
          /\ tasks' = [tasks EXCEPT
                         !.in_flight[r] = IF a.admitted THEN @ + 1 ELSE @,
                         !.observed =
                             IF a.admitted
                             THEN [Away EXCEPT !.state = "inside", !.region = r]
                             ELSE [state |-> "waiting", region |-> r,
                                   ahead |-> sem.waiters, waited |-> TRUE]]
    /\ UNCHANGED beyond_gate

\* a woken waiter runs again and enters the block
resume(r) ==
    /\ regional_semaphores[r].woken - Observed(r, "woken") > 0
    /\ LET sem == regional_semaphores[r]
           next == resumed(sem)
       IN /\ regional_semaphores' = [regional_semaphores EXCEPT ![r] = next]
          /\ tasks' = [tasks EXCEPT
                         !.in_flight[r] = @ + 1,
                         !.observed = Notify(@, r, sem, next)]
    /\ UNCHANGED beyond_gate

resume_observed ==
    /\ tasks.observed.state = "woken"
    /\ LET r == tasks.observed.region
       IN /\ regional_semaphores' =
                [regional_semaphores EXCEPT ![r] = resumed(@)]
          /\ tasks' = [tasks EXCEPT
                         !.in_flight[r] = @ + 1,
                         !.observed.state = "inside"]
    /\ UNCHANGED beyond_gate

\* a request leaves the block
leave(r, how) ==
    /\ tasks.in_flight[r] - Observed(r, "inside") - tasks.sleeping[r] > 0
    /\ LET sem == regional_semaphores[r]
           next == aexit(sem, how)
       IN /\ regional_semaphores' = [regional_semaphores EXCEPT ![r] = next]
          /\ tasks' = [tasks EXCEPT
                         !.in_flight[r] = @ - 1,
                         !.observed = Notify(@, r, sem, next)]
    /\ UNCHANGED beyond_gate

leave_observed(how) ==
    /\ tasks.observed.state = "inside"
    /\ LET r == tasks.observed.region
       IN /\ regional_semaphores' =
                [regional_semaphores EXCEPT ![r] = aexit(@, how)]
          /\ tasks' = [tasks EXCEPT !.in_flight[r] = @ - 1, !.observed = Away]
    /\ UNCHANGED beyond_gate

NextGate ==
    \/ \E r \in REGIONAL_ENDPOINTS : enter(r)
    \/ \E r \in REGIONAL_ENDPOINTS : enter_observed(r)
    \/ \E r \in REGIONAL_ENDPOINTS : resume(r)
    \/ resume_observed
    \/ \E r \in REGIONAL_ENDPOINTS, how \in Exits : leave(r, how)
    \/ \E how \in Exits : leave_observed(how)

SpecGate == InitCoord /\ [][NextGate]_vars

\* every request inside the block leaves it, its attempts being three at most and
\* each cut off by "timeout=10.0", and the event loop runs every woken waiter
GateFairness ==
    /\ WF_vars(\E how \in Exits : leave(Home, how))
    /\ WF_vars(resume(Home))
    /\ WF_vars(resume_observed)
    /\ WF_vars(\E how \in Exits : leave_observed(how))

\* the gate of the busy region on its own
NextBusyGate ==
    \/ enter(Home)
    \/ enter_observed(Home)
    \/ resume(Home)
    \/ resume_observed
    \/ \E how \in Exits : leave(Home, how)
    \/ \E how \in Exits : leave_observed(how)

SpecGateFair == InitCoord /\ [][NextBusyGate]_vars /\ GateFairness

\* a request inside the block ends an attempt without an answer and goes into
\* "await asyncio.sleep(retry_delay * (2 ** attempt))", still inside the block
backoff_sleep(r) ==
    /\ tasks.sleeping[r] < MaxSleeping
    /\ tasks.in_flight[r] - Observed(r, "inside") - tasks.sleeping[r] > 0
    /\ tasks' = [tasks EXCEPT !.sleeping[r] = @ + 1]
    /\ UNCHANGED <<regional_semaphores, beyond_gate>>

\* the sleep is over and the next attempt starts
backoff_over(r) ==
    /\ tasks.sleeping[r] > 0
    /\ tasks' = [tasks EXCEPT !.sleeping[r] = @ - 1]
    /\ UNCHANGED <<regional_semaphores, beyond_gate>>

\* the gate of the busy region with requests that retry
NextBackoff ==
    \/ enter(Home)
    \/ enter_observed(Home)
    \/ resume(Home)
    \/ resume_observed
    \/ \E how \in Exits : leave(Home, how)
    \/ \E how \in Exits : leave_observed(how)
    \/ backoff_sleep(Home)
    \/ backoff_over(Home)

SpecBackoff == InitCoord /\ [][NextBackoff]_vars

\* ------------------------------------------------------ the reading handlers
\* a route of fewer than two coordinates, for which convert_route_to_segments
\* raises ValueError
Short == "short"

\* /process_segment: the spatial query of convert_route_to_segments and nothing
\* else; rowcount carries the number of segment ids answered
process_segment(p, b, route) ==
    /\ txn[p].pc = "idle"
    /\ ret' = IF route = Short
              THEN Return("process_segment", b, "error", 0, 0)
              ELSE [Return("process_segment", b, "segments", 0, 0) EXCEPT
                       !.rowcount = Len(convert_route_to_segments(Home, route))]
    /\ UNCHANGED <<capacity, current_load, booking_segments, txn>>

\* SegmentService.get_segments: booking_segments JOIN road_segments for one
\* booking; rowcount carries the number of rows of the join
get_segments(p, b) ==
    /\ txn[p].pc = "idle"
    /\ ret' = [Return("get_segments", b, "segments", 0, 0) EXCEPT
                  !.rowcount = BagSum(booking_segments[Home],
                                      {r \in RowsOf(booking_segments[Home], b) :
                                          r.segment_id \in Segs})]
    /\ UNCHANGED <<capacity, current_load, booking_segments, txn>>

\* one session making every call of the regional service, in any order
NextLedger ==
    \/ \E b \in Bookings, ids \in Batches : reserve_segments_begin(1, b, ids) /\ Quiet
    \/ \E s \in Segs : row_lock(1, s) /\ Quiet
    \/ reserve_segments_query(1) /\ Quiet
    \/ reserve_segments_commit(1) /\ Quiet
    \/ \E b \in Bookings : cancel_booking_begin(1, b) /\ Quiet
    \/ cancel_booking_commit(1) /\ Quiet
    \/ \E b \in Bookings : confirm_booking(1, b) /\ Quiet
    \/ \E b \in Bookings, ids \in Batches : check_capacity(1, b, ids) /\ Quiet
    \/ \E b \in Bookings, route \in (Routes \ {"malformed"}) \cup {Short} :
          process_segment(1, b, route) /\ Quiet
    \/ \E b \in Bookings : get_segments(1, b) /\ Quiet

SpecLedger == Init /\ [][NextLedger]_vars

\* ------------------------------------------- two cancels of the same booking
\* the booking whose cancel reaches the region twice at once: the coordinator's
\* next attempt after a timed-out one, or the cancel endpoint and a compensation
Contested == "b1"

\* session 1 reserves for any booking; once it is done, both sessions run
\* cancel_booking for the contested booking, their steps interleaved
NextTwice ==
    \/ \E b \in Bookings, ids \in Batches :
          txn[2].pc = "idle" /\ reserve_segments_begin(1, b, ids) /\ Quiet
    \/ \E p \in Sessions, s \in Segs : row_lock(p, s) /\ Quiet
    \/ reserve_segments_query(1) /\ Quiet
    \/ reserve_segments_commit(1) /\ Quiet
    \/ \E p \in Sessions :
          txn[1].op # "reserve_segments" /\ cancel_booking_begin(p, Contested) /\ Quiet
    \/ \E p \in Sessions : cancel_booking_commit(p) /\ Quiet
    \/ \E p \in Sessions : lock_timeout(p) /\ Quiet
    \/ \E p \in Sessions : serialization_failure(p) /\ Quiet

SpecTwice == Init /\ [][NextTwice]_vars

\* ================================================================== claims
LiveOn(tbl, s) == Count(tbl, {r \in BagToSet(tbl) :
                                 r.segment_id = s /\ r.status \in {"waiting", "success"}})

\* C1: in every reachable state of the ledger, with the calls of two bookings
\* interleaved step by step, every segment has 0 <= current_load <= capacity.
C1_LoadWithinCapacity ==
    \A s \in Segs : /\ 0 <= current_load[Home][s]
                    /\ current_load[Home][s] <= capacity[Home][s]

\* a reserve was just turned down on a full segment while the other booking's
\* session is inside a call of its own
C1_Witness ==
    /\ ret.op = "reserve_segments" /\ ret.status = "rejected"
    /\ \E s \in Segs : current_load[Home][s] = capacity[Home][s]
    /\ \E q \in Sessions : txn[q].pc # "idle"

\* the session whose reserve_segments returns in this step after the capacity loop
ReserveReturns(p) == txn[p].pc = "reserve_check" /\ txn'[p].pc = "idle"

\* a batch that names a missing segment or one that is at capacity
BadBatch(ids) ==
    \E i \in DOMAIN ids :
        \/ ids[i] \notin Segs
        \/ AtCapacity(current_load[Home][ids[i]], capacity[Home][ids[i]])

\* C4: a reserve on a batch in which a segment is missing or at capacity leaves
\* every current_load as it was and inserts no reservation: the call is rejected
\* and the table is unchanged.
C4_AllOrNothing ==
    [][\A p \in Sessions :
          (ReserveReturns(p) /\ BadBatch(txn[p].segment_ids))
             => /\ ret'.status = "rejected"
                /\ current_load' = current_load
                /\ booking_segments' = booking_segments]_vars

\* a reserve raised after its loop had already incremented a segment
C4_Witness ==
    /\ hist.phase = "rejected" /\ hist.n > 0
    /\ ret.op = "reserve_segments" /\ ret.status = "rejected"
    /\ current_load[Home] = hist.pre

\* C7: after any sequence of calls, current_load of every segment equals the
\* number of its reservations that are 'waiting' or 'success'.
C7_LoadCountsLiveRows ==
    \A s \in Segs : current_load[Home][s] = LiveOn(booking_segments[Home], s)

\* C8: a reservation that is 'cancelled' or 'failed' keeps that status: the
\* rows with either status are never fewer after a step, for any booking and
\* segment.
C8_TerminalStatuses ==
    [][\A b \in Bookings, s \in SegIds, st \in {"cancelled", "failed"} :
          CopiesIn(BookingSegment(b, s, st), booking_segments'[Home])
             >= CopiesIn(BookingSegment(b, s, st), booking_segments[Home])]_vars

\* the cancel that returns in this step follows a run of calls in phase ph on
\* the same booking
CancelAfter(phases) ==
    /\ ret'.op = "cancel_booking" /\ ret'.status = "success"
    /\ hist.booking_id = ret'.booking_id
    /\ hist.phase \in phases

\* C9: a second cancel_booking of a booking, made after the first completed,
\* reports segments_freed = 0 and changes no current_load.
C9_SecondCancelFreesNothing ==
    [][CancelAfter({"cancelled", "recancelled"})
          => /\ ret'.segments_freed = 0
             /\ current_load' = current_load]_vars

\* the second cancel returned, and the first one had freed segments
C9_Witness ==
    /\ hist.phase = "recancelled" /\ hist.n > 0
    /\ ret.op = "cancel_booking" /\ ret.segments_freed = 0

\* C10: a successful reserve followed by a cancel of the same booking, with or
\* without a confirm in between, restores every current_load to its value before
\* the reserve and leaves every reservation of the booking 'cancelled'.
C10_CancelRestoresLoad ==
    [][CancelAfter({"reserved", "confirmed"})
          => /\ hist.pre # <<>> => current_load'[Home] = hist.pre
             /\ \A r \in RowsOf(booking_segments'[Home], ret'.booking_id) :
                   r.status = "cancelled"]_vars

\* C2: two bookings call reserve at the same time on a segment with capacity 1
\* and load 0.  Once both calls have returned, exactly one booking got the place
\* and the other was rejected; the winner's reservation is 'waiting' until it
\* settles, and current_load is 1 while the winner holds the place, 1 once it has
\* confirmed and 0 once it has cancelled.
C2_OneWinner ==
    BothReturned
       => \E w \in Bookings, s \in Segs :
             /\ capacity[Home][s] = 1
             /\ outcome[w] # "rejected"
             /\ \A l \in Bookings \ {w} :
                   /\ outcome[l] = "rejected"
                   /\ RowsOf(booking_segments[Home], l) = {}
             /\ outcome[w] = "reserved"
                   => booking_segments[Home] = SetToBag({BookingSegment(w, s, "waiting")})
             /\ outcome[w] \in {"reserved", "confirmed"} => current_load[Home][s] = 1
             /\ outcome[w] = "cancelled" => current_load[Home][s] = 0
             /\ \A x \in Segs \ {s} : current_load[Home][x] = 0

\* both calls were in flight together, one was rejected, and the winner has
\* since cancelled
C2_Witness ==
    /\ \E w, l \in Bookings : outcome[w] = "cancelled" /\ outcome[l] = "rejected"
    /\ \A s \in Segs : current_load[Home][s] = 0
    /\ ret.op = "cancel_booking" /\ ret.segments_freed = 1

\* the bookings reported "success" whose route runs over segment s of region r
Holders(r, s) ==
    {b \in Bookings : /\ req[b].status = "success"
                      /\ r \in DOMAIN req[b].regional_segments
                      /\ s \in Range(req[b].regional_segments[r])}

\* C3: of the booking requests the coordinator orchestrates at the same time, no
\* more end with status "success" on a segment than the segment had places left:
\* when two need the last place, at most one succeeds.
C3_LoserRejected ==
    \A r \in REGIONAL_ENDPOINTS, s \in Segs :
        SeedLoad[s] + Cardinality(Holders(r, s)) <= capacity[r][s]

\* the booking's outcome is reported and a region rejected it or failed for good
Compensated(b) ==
    /\ req[b].pc = "done"
    /\ \/ req[b].status \in {"failed", "error"}
       \/ \E r \in DOMAIN req[b].confirmation : req[b].confirmation[r] # "success"

\* C5: once the coordinator has reported a booking that a region rejected or
\* failed, every reservation of the booking in every region is 'cancelled' or
\* 'failed', none is 'waiting' (also when the regional cancel call failed), and
\* a booking orchestrated alone leaves every load where it was.
C5_CompensationComplete ==
    \A b \in Bookings :
        Compensated(b)
           => \A r \in REGIONAL_ENDPOINTS :
                 /\ \A x \in RowsOf(booking_segments[r], b) :
                       x.status \in {"cancelled", "failed"}
                 /\ (\A o \in Bookings \ {b} : req[o].pc = "idle")
                       => current_load[r] = SeedLoad

\* a booking is reported "failed": Ireland rejected it and recorded the rows, and
\* the cancel call to Ireland failed after its last attempt
C5_Witness ==
    \E b \in Bookings :
        /\ req[b].status = "failed"
        /\ call[b][Home].endpoint = "cancel_booking"
        /\ call[b][Home].state = "returned" /\ ~call[b][Home].success
        /\ call[b][Home].attempt = max_retries
        /\ \E x \in RowsOf(booking_segments[Home], b) : x.status = "failed"

\* C6: a booking reported "success" has, in every participating region, a
\* confirm call that succeeded and a reservation for every segment of its route,
\* all of them 'success'.
C6_SuccessIsConfirmed ==
    \A b \in Bookings :
        req[b].status = "success"
           => \A r \in DOMAIN req[b].regional_segments :
                 /\ req[b].confirmation[r] = "success"
                 /\ \A s \in Range(req[b].regional_segments[r]) :
                       \E x \in RowsOf(booking_segments[r], b) : x.segment_id = s
                 /\ \A x \in RowsOf(booking_segments[r], b) : x.status = "success"

\* the regions the coordinator asked in the phase that check_capacity ends
Asked(b) == {r \in REGIONAL_ENDPOINTS : call[b][r].endpoint = "check_capacity"}

C12_BoundedRetries ==
    [][\A b \in Bookings, r \in REGIONAL_ENDPOINTS :
          LET c == call[b][r]
              d == call'[b][r]
              code == Handler(r, b, c.endpoint).code
          IN /\ d.state = "in_flight" => d.attempt < max_retries
             /\ regional_response(b, r)
                   => /\ d.state = "returned" /\ d.attempt = c.attempt
                      /\ d.backoff = c.backoff
                      /\ d.success <=> code = 200
             /\ (c.state = "in_flight" /\ d.attempt # c.attempt)
                   => /\ request_error(b, r) \/ response_lost(b, r)
                      /\ d.attempt = c.attempt + 1
                      /\ IF d.attempt < max_retries
                         THEN /\ d.state = "in_flight"
                              /\ d.backoff = IF c.attempt = 0 THEN 1 ELSE 2 * c.backoff
                         ELSE /\ d.state = "returned" /\ ~d.success
                              /\ d.backoff = c.backoff]_vars

\* a call came back as failed after its third attempt, having slept twice, the
\* second time twice as long as the first
C12_Witness ==
    \E b \in Bookings, r \in REGIONAL_ENDPOINTS :
        /\ call[b][r].state = "returned" /\ ~call[b][r].success
        /\ call[b][r].attempt = max_retries
        /\ call[b][r].backoff = 2
        /\ \E o \in REGIONAL_ENDPOINTS \ {r} :
              call[b][o].state = "returned" /\ call[b][o].attempt = 0

\* C13: in every state each region has at most Permits requests inside the
\* gate, the units of its semaphore being the free ones, those handed to woken
\* waiters and those of the requests inside; and a step at the gate of one region
\* changes neither the semaphore nor the count of the other.
C13_InFlightWithinPermits ==
    [][/\ \A r \in REGIONAL_ENDPOINTS :
             /\ tasks'.in_flight[r] <= Permits
             /\ regional_semaphores'[r].value >= 0
             /\ regional_semaphores'[r].value + regional_semaphores'[r].woken
                   + tasks'.in_flight[r] = Permits
       /\ \A r \in REGIONAL_ENDPOINTS :
             (regional_semaphores'[r] # regional_semaphores[r]
                \/ tasks'.in_flight[r] # tasks.in_flight[r])
                => \A o \in REGIONAL_ENDPOINTS \ {r} :
                      /\ regional_semaphores'[o] = regional_semaphores[o]
                      /\ tasks'.in_flight[o] = tasks.in_flight[o]]_vars

\* one region is full with requests waiting at its gate while the other has
\* requests inside and units to spare
C13_Witness ==
    \E r \in REGIONAL_ENDPOINTS, o \in REGIONAL_ENDPOINTS :
        /\ tasks.in_flight[r] = Permits
        /\ regional_semaphores[r].waiters = MaxQueue
        /\ tasks.in_flight[o] > 0 /\ regional_semaphores[o].value > 0

\* C14: a request that finds the gate of its region full waits, and the only
\* steps it takes from there are being woken and entering; with every request
\* inside the gate leaving in the end and the event loop running every woken
\* waiter, it does enter.
C14_EventuallyAdmitted ==
    /\ [][tasks.observed.state = "waiting"
             => tasks'.observed.state \in {"waiting", "woken"}]_vars
    /\ [][tasks.observed.state = "woken"
             => tasks'.observed.state \in {"woken", "inside"}]_vars
    /\ (tasks.observed.state = "waiting") ~> (tasks.observed.state = "inside")

\* the observed request is inside after it had found the gate full and waited,
\* and the gate is full again with requests waiting at it
C14_Witness ==
    /\ tasks.observed.state = "inside" /\ tasks.observed.waited
    /\ tasks.in_flight[tasks.observed.region] = Permits
    /\ regional_semaphores[tasks.observed.region].waiters > 0

\* C15: a booking request whose coordinates do not parse leads to no request of
\* any kind to any region: no call of it is in flight or has returned.
C15_MalformedNoCalls ==
    \A b \in Bookings :
        req[b].route = "malformed"
           => \A r \in REGIONAL_ENDPOINTS : call[b][r] = NoCall

\* C16: a booking request between two points that no road joins fails with
\* RouteNotFound and leads to no request to any region.
C16_NoPathNoCalls ==
    \A b \in Bookings :
        req[b].route = Unroutable
           => /\ \A r \in REGIONAL_ENDPOINTS : call[b][r] = NoCall
              /\ req[b].pc = "done" /\ req[b].status = "RouteNotFound"

\* C17: confirm_booking on a booking that is already confirmed changes no
\* reservation and no current_load, and reports that it updated no reservation.
C17_ConfirmIdempotent ==
    [][\A b \in Bookings :
          (confirm_booking(1, b) /\ hist.booking_id = b /\ hist.phase = "confirmed")
             => /\ booking_segments' = booking_segments
                /\ current_load' = current_load
                /\ ret'.rowcount = 0]_vars


\* C18: both counts that cancel_booking returns are the number of the booking's
\* reservations that were 'waiting' or 'success' when it ran; reservations that
\* were 'cancelled' or 'failed' are in neither count, and a booking with only
\* such reservations gets zero for both.
C18_CountsCoverLiveRows ==
    [][(ret'.op = "cancel_booking"
          /\ (cancel_booking_commit(1) \/ \E b \in Bookings : cancel_booking_begin(1, b)))
          => LET tbl == booking_segments[Home]
                 live == BagSum(tbl, Live(tbl, ret'.booking_id))
             IN /\ ret'.segments_cancelled = live
                /\ ret'.segments_freed = live]_vars

\* C19: check_capacity, whatever it answers, leaves every current_load and the
\* reservations of every booking, with their statuses, as they were.
C19_CheckCapacityReadOnly ==
    [][(\E b \in Bookings, ids \in Batches : check_capacity(1, b, ids))
          => /\ current_load' = current_load
             /\ booking_segments' = booking_segments]_vars

\* a batch of known segments of which one is at capacity
FullBatch(ids) ==
    /\ Range(ids) \subseteq Segs
    /\ \E s \in Range(ids) : AtCapacity(current_load[Home][s], capacity[Home][s])

\* C20: a reserve that finds a segment of its batch at capacity is rejected,
\* leaves every current_load as it was, and leaves under its booking one more
\* 'failed' reservation for each segment of the batch.
C20_RejectionRecorded ==
    [][\A p \in Sessions :
          (ReserveReturns(p) /\ FullBatch(txn[p].segment_ids))
             => /\ ret'.status = "rejected"
                /\ current_load' = current_load
                /\ booking_segments'[Home] =
                      booking_segments[Home]
                         (+) NewRows(txn[p].booking_id, txn[p].segment_ids, "failed")]_vars

\* C21: a region that matches no segment for the route fails the match: its
\* process_segment call does not come back as a success, and the coordinator
\* never holds an empty segment list for a region as the result of a match.
C21_NoSegmentsIsFailure ==
    \A b \in Bookings, r \in REGIONAL_ENDPOINTS :
        /\ (/\ call[b][r].endpoint = "process_segment"
            /\ call[b][r].state = "returned"
            /\ convert_route_to_segments(r, req[b].route) = <<>>)
              => ~call[b][r].success
        /\ r \in DOMAIN req[b].regional_segments
              => req[b].regional_segments[r] # <<>>

\* the statuses a response of send_request carries
Reported == {"success", "failed", "error"}

\* C22: every send_request, once made, reaches its return with one of the
\* reported statuses, whatever its regional calls met (answers, refusals, lost
\* answers, connection errors), given that every attempt of a call ends.
C22_RequestTerminates ==
    /\ [](\A b \in Solo : req[b].pc = "done" <=> req[b].status \in Reported)
    /\ \A b \in Solo : (req[b].pc # "idle") ~> (req[b].pc = "done")

\* a request has returned "failed" after one region's cancel call gave up on its
\* third attempt and the other region answered that it had nothing to cancel
C22_Witness ==
    \E b \in Solo, r, o \in REGIONAL_ENDPOINTS :
        /\ req[b].pc = "done" /\ req[b].status = "failed"
        /\ call[b][r].attempt = max_retries /\ ~call[b][r].success
        /\ call[b][o].state = "returned" /\ call[b][o].status = "not_found"

\* C23: once the coordinator has reported a booking "cancelled", or send_request
\* has reported it "failed", no region holds a 'waiting' reservation of the
\* booking, also when a regional cancel call failed or was never answered.
C23_NoneWaitingOnceReported ==
    \A b \in Bookings :
        req[b].status \in {"cancelled", "failed"}
           => \A r \in REGIONAL_ENDPOINTS :
                 \A x \in RowsOf(booking_segments[r], b) : x.status # "waiting"

\* C24: when send_request returns a status other than "success" after it issued
\* a regional call, its last call to every region it contacted was a
\* cancel_booking, and that call had returned.
C24_CancelBeforeFailureReport ==
    \A b \in Bookings :
        (req[b].pc = "done" /\ req[b].status \in {"failed", "error"})
           => \A r \in REGIONAL_ENDPOINTS :
                 call[b][r] # NoCall
                    => /\ call[b][r].endpoint = "cancel_booking"
                       /\ call[b][r].state = "returned"

\* C25: in every state the table holds at most one reservation for a booking
\* and a segment, whatever the statuses and however often a call was repeated.
C25_OneRowPerPair ==
    \A b \in Bookings, s \in SegIds :
        LET tbl == booking_segments[Home]
        IN BagSum(tbl, {x \in RowsOf(tbl, b) : x.segment_id = s}) <= 1

\* the session is inside its lock statement and every row it has yet to lock is
\* held by another session
Waits(p) ==
    /\ txn[p].pc \in {"reserve_lock", "cancel_lock"}
    /\ txn[p].need \ txn[p].held # {}
    /\ \A s \in txn[p].need \ txn[p].held : ~LockFree(p, s)

\* C26: reserve and cancel calls running at the same time over overlapping
\* segments never come to a state in which each of them waits for a row lock
\* that another of them holds.
C26_NoLockCycle ==
    ~(\A p \in Sessions : Waits(p) /\ txn[p].held # {})

\* C27: a request that sleeps between two attempts holds no unit of its region's
\* semaphore: once every woken waiter has entered, a request is left waiting at
\* the gate of a region only while Permits requests of that region are in an
\* attempt, those asleep not counted.
C27_BackoffHoldsNoSlot ==
    \A r \in REGIONAL_ENDPOINTS :
        (regional_semaphores[r].waiters > 0 /\ regional_semaphores[r].woken = 0)
           => tasks.in_flight[r] - tasks.sleeping[r] >= Permits

\* C28: current_load is changed only by the step that ends a reserve_segments
\* or a cancel_booking call; confirm_booking, check_capacity (with its recording
\* of failed reservations), process_segment and get_segments leave every
\* current_load as it was.
C28_OnlyReserveAndCancelMoveLoad ==
    [][/\ current_load' # current_load
          => /\ txn[1].op \in {"reserve_segments", "cancel_booking"}
             /\ ret'.op = txn[1].op
       /\ ((\/ \E b \in Bookings : confirm_booking(1, b)
            \/ \E b \in Bookings, ids \in Batches : check_capacity(1, b, ids)
            \/ \E b \in Bookings, route \in Routes \cup {Short} :
                  process_segment(1, b, route)
            \/ \E b \in Bookings : get_segments(1, b))
              => current_load' = current_load)]_vars

\* a failed capacity check has recorded its rows while a segment carries load
C28_Witness ==
    /\ ret.op = "check_capacity" /\ ret.status = "failed"
    /\ \E r \in BagToSet(booking_segments[Home]) : r.status = "failed"
    /\ \E s \in Segs : current_load[Home][s] > 0

\* the session whose cancel_booking commits and returns in this step
CancelReturns(p) ==
    /\ txn[p].pc = "cancel_lock" /\ txn'[p].pc = "idle"
    /\ ret'.status = "success"

C30_CheckCapacityExact ==
    [][\A b \in Bookings, ids \in Batches :
          check_capacity(1, b, ids)
             => (ret'.status = "ok"
                   <=> \A i \in DOMAIN ids :
                          /\ ids[i] \in Segs
                          /\ current_load[Home][ids[i]] < capacity[Home][ids[i]])]_vars

====
